---- MODULE Spec2Model ----
(***************************************************************************)
(* svc (EFLKumo/svc, src/main.rs): a command line tool that runs, kills,   *)
(* enables, disables and reports on the services listed in services.yaml   *)
(* by shelling out to powershell, reg and taskkill.                        *)
(*                                                                         *)
(* One invocation of the tool is a short sequential process.  Its steps    *)
(* are cut at the external commands it runs, because the process table     *)
(* and the auto-start store belong to the operating system and may change  *)
(* between any two of them.  Text (paths, command output) is a sequence of *)
(* one-character strings, so that substring matching, line splitting,      *)
(* trimming and integer parsing are computed and not assumed.              *)
(***************************************************************************)
EXTENDS Integers, Sequences, FiniteSets, TLC

\* ------------------------------------------------------------------ bounds

\* Process identifiers the operating system hands out are 1..MaxPid.
MaxPid == 2

\* Longest process-enumeration output explored by SpecParse, in characters.
MaxOut == 5

\* Longest service path of the working-directory specification
MaxPath == 6

\* ------------------------------------------------------------- text helpers

NoPath == <<>>

Digits == <<"0", "1", "2", "3", "4", "5", "6", "7", "8", "9">>

IsDigit(c) == \E d \in 1..10 : Digits[d] = c

DigitVal(c) == (CHOOSE d \in 1..10 : Digits[d] = c) - 1

\* char::is_whitespace, restricted to the characters of the model
IsSpace(c) == c \in {" ", "\r", "\n", "\t"}

\* u64::to_string / the decimal rendering of a process identifier
RECURSIVE ToDigits(_)
ToDigits(n) ==
    IF n < 10 THEN <<Digits[n + 1]>>
    ELSE ToDigits(n \div 10) \o <<Digits[(n % 10) + 1]>>

\* `needle` occurs in `hay` as a contiguous run (PowerShell -like '*needle*'
\* for a needle without wildcard characters)
Contains(hay, needle) ==
    \E k \in 0..(Len(hay) - Len(needle)) :
        SubSeq(hay, k + 1, k + Len(needle)) = needle

\* ------------------------------------------------------------ configuration

default_interpreter == <<"p", "y">>

default_work_at == <<>>

\* The services of services.yaml: one Executable without work_at, one Util
\* with a work_at of its own.
Config ==
    << [name |-> "app", path |-> <<"/", "a", "/", "x">>,
        service_type |-> "Executable",
        interpreter |-> default_interpreter, work_at |-> default_work_at],
       [name |-> "tool", path |-> <<"/", "t">>,
        service_type |-> "Util",
        interpreter |-> default_interpreter, work_at |-> <<"/", "w">>] >>

Names == {Config[k].name : k \in 1..Len(Config)}

\* HashMap<String, Service> built by collect(): a later record of the same
\* name replaces an earlier one.
service_map(n) ==
    Config[CHOOSE k \in 1..Len(Config) :
              /\ Config[k].name = n
              /\ \A j \in (k + 1)..Len(Config) : Config[j].name # n]

\* ------------------------------------------------- process-identifier parsing

NewlineAt(s) ==
    IF \E k \in 1..Len(s) : s[k] = "\n"
    THEN CHOOSE k \in 1..Len(s) : s[k] = "\n" /\ \A j \in 1..(k - 1) : s[j] # "\n"
    ELSE 0

StripCR(t) ==
    IF Len(t) > 0 /\ t[Len(t)] = "\r" THEN SubSeq(t, 1, Len(t) - 1) ELSE t

\* str::lines: split at "\n", no empty piece after a final "\n", a "\r"
\* before the line end is not part of the line
RECURSIVE lines(_)
lines(s) ==
    IF s = <<>> THEN <<>>
    ELSE LET k == NewlineAt(s)
         IN IF k = 0 THEN <<StripCR(s)>>
            ELSE <<StripCR(SubSeq(s, 1, k - 1))>> \o lines(SubSeq(s, k + 1, Len(s)))

RECURSIVE TrimStart(_)
TrimStart(t) ==
    IF t # <<>> /\ IsSpace(Head(t)) THEN TrimStart(Tail(t)) ELSE t

RECURSIVE TrimEnd(_)
TrimEnd(t) ==
    IF t # <<>> /\ IsSpace(t[Len(t)]) THEN TrimEnd(SubSeq(t, 1, Len(t) - 1)) ELSE t

\* str::trim
trim(t) == TrimEnd(TrimStart(t))

ParseErr == [ok |-> FALSE, val |-> 0]

\* the digit loop of u64::from_str: every character must be a decimal digit
RECURSIVE ParseDigitsFrom(_, _)
ParseDigitsFrom(t, acc) ==
    IF t = <<>> THEN [ok |-> TRUE, val |-> acc]
    ELSE IF ~IsDigit(Head(t)) THEN ParseErr
    ELSE ParseDigitsFrom(Tail(t), acc * 10 + DigitVal(Head(t)))

\* str::parse::<u64>: empty input and a lone sign are errors, one leading
\* "+" is accepted, "-" is not a digit of an unsigned type.  (Values above
\* u64::MAX are an error too; no line within MaxOut characters reaches it.)
parse_u64(t) ==
    IF t = <<>> THEN ParseErr
    ELSE IF Len(t) = 1 /\ Head(t) \in {"+", "-"} THEN ParseErr
    ELSE IF Head(t) = "+" THEN ParseDigitsFrom(Tail(t), 0)
    ELSE ParseDigitsFrom(t, 0)

\* pid_of_line without the trim: a line is parsed as it stands
pid_of_line_untrimmed(line) == parse_u64(line)

\* .filter_map(|line| line.trim().parse::<u64>().ok())
pid_of_line(line) == parse_u64(trim(line))

RECURSIVE filter_map_pids(_)
filter_map_pids(ls) ==
    IF ls = <<>> THEN <<>>
    ELSE LET r == pid_of_line(Head(ls))
         IN (IF r.ok THEN <<r.val>> ELSE <<>>) \o filter_map_pids(Tail(ls))

\* stdout.lines().filter_map(..).collect()
ParsePids(stdout) == filter_map_pids(lines(stdout))

\* ------------------------------------------------------------------ options

\* Option<i32> of ExitStatus::code(): Some(n) is <<n>>, None is <<>>
Some(n) == <<n>>

None == <<>>

\* How an external command can end, as the log records it: it could not be
\* started, or it ran and ended with code 0, with a non-zero code, or
\* without a code.
CodeOf(out) ==
    CASE out = "exit0" -> Some(0)
      [] out = "exit1" -> Some(1)
      [] OTHER -> None

\* ExitStatus::success()
success(code) == code = Some(0)

\* Path::parent for a path without trailing or doubled separators: None for
\* the empty path and for the root, otherwise the path without its last
\* component (the empty path for a single relative component)
LastSep(p) ==
    IF \E k \in 1..Len(p) : p[k] = "/"
    THEN CHOOSE k \in 1..Len(p) : p[k] = "/" /\ \A j \in (k + 1)..Len(p) : p[j] # "/"
    ELSE 0

parent(p) ==
    IF p = <<>> \/ p = <<"/">> THEN [some |-> FALSE, val |-> <<>>]
    ELSE LET k == LastSep(p)
         IN [some |-> TRUE,
             val |-> IF k = 0 THEN <<>>
                     ELSE IF k = 1 THEN <<"/">>
                     ELSE SubSeq(p, 1, k - 1)]

\* ------------------------------------------------------------------- state

\* Invocations of the tool that may exist side by side
Clis == {"i1", "i2"}

NoProc == <<>>

\* A program that is no service but whose path contains the path of every
\* service: a copy of the executable kept under the script's directory
ForeignExe == <<"/", "t", "/", "a", "/", "x">>

\* Executables that something other than the tool may start: the services'
\* own and the foreign one
Exes ==
    {Config[k].path : k \in {j \in 1..Len(Config) : Config[j].service_type = "Executable"}}
        \cup {ForeignExe}

Pids == 1..MaxPid

VARIABLES
    procs,        \* the OS process table: pid -> executable path, or NoProc
    reg,          \* names with an entry under HKCU\...\CurrentVersion\Run
    active,       \* the invocations that may be started
    pc,           \* per invocation: the external command it is about to run
    cmd,          \* per invocation: the command dispatched by main
    svc,          \* per invocation: the name of the service looked up
    pids,         \* per invocation: ServiceStatus.pids of its snapshot
    is_start_up,  \* per invocation: ServiceStatus.is_start_up of its snapshot
    todo,         \* per invocation: the identifiers kill_service has yet to visit
    work_at,      \* per invocation: the working directory handed to the launch
    child,        \* per invocation: the interpreter process run_util waits for
    result,       \* per invocation: what main returned, once it has
    exit_code,    \* per invocation: the process exit code, once it has exited
    calls,        \* per invocation: the external commands it has issued, in order
    lastReg,      \* per name: the last of enable/disable that returned Ok, if
                  \* nothing outside the tool has touched the entry since
    stdout,       \* SpecParse: a process-enumeration output
    parsed,       \* SpecParse: the identifiers collected from it, once parsed
    config,       \* per invocation: what load_config returned
    argv,         \* per invocation: the arguments it was started with
    probe,        \* SpecWorkAt: the path and work_at of a service record
    resolved      \* SpecWorkAt: the directory its launch ran in, once launched

vars ==
    <<procs, reg, active, pc, cmd, svc, pids, is_start_up, todo, work_at,
      child, result, exit_code, calls, lastReg, stdout, parsed, config,
      argv, probe, resolved>>

NoResult == [kind |-> "none", path |-> NoPath, status |-> None]

Ok == [kind |-> "Ok", path |-> NoPath, status |-> None]

Err(k) == [kind |-> k, path |-> NoPath, status |-> None]

\* One logged external command
Call(c, target, name, pid, cwd, out) ==
    [cmd |-> c, target |-> target, name |-> name, pid |-> pid, cwd |-> cwd, out |-> out]

CurDir == <<".">>

Unparsed == [done |-> FALSE, pids |-> <<>>]

NoProbe == [path |-> <<>>, work_at |-> <<>>]

Unresolved == [done |-> FALSE, dir |-> <<>>]

Service(i) == service_map(svc[i])

Init ==
    /\ procs = [p \in Pids |-> NoProc]
    /\ reg = {}
    /\ active = {"i1"}
    /\ pc = [i \in Clis |-> "idle"]
    /\ cmd = [i \in Clis |-> "none"]
    /\ svc = [i \in Clis |-> "none"]
    /\ pids = [i \in Clis |-> <<>>]
    /\ is_start_up = [i \in Clis |-> FALSE]
    /\ todo = [i \in Clis |-> <<>>]
    /\ work_at = [i \in Clis |-> <<>>]
    /\ child = [i \in Clis |-> 0]
    /\ result = [i \in Clis |-> NoResult]
    /\ exit_code = [i \in Clis |-> None]
    /\ calls = [i \in Clis |-> <<>>]
    /\ lastReg = [n \in Names |-> "none"]
    /\ stdout = <<>>
    /\ parsed = Unparsed
    /\ config = [i \in Clis |-> "none"]
    /\ argv = [i \in Clis |-> <<>>]
    /\ probe = NoProbe
    /\ resolved = Unresolved

\* -------------------------------------------------------------------- main

Commands == {"run", "enable", "disable", "status", "kill"}

OverrideDir == <<"/", "d">>

\* std::env::args(): the program name, then the arguments
ArgVectors ==
    {<<"svc">>}
        \cup {<<"svc", c, n>> : c \in Commands \cup {"bogus"}, n \in Names \cup {"ghost"}}
        \cup {<<"svc", c, n, "at", OverrideDir>> : c \in {"run", "kill"}, n \in Names \cup {"ghost"}}

\* The invocation ends: main returns r (Err exits with code 1) or exit(1) ran
Exit(i, r, code) ==
    /\ result' = [result EXCEPT ![i] = r]
    /\ exit_code' = [exit_code EXCEPT ![i] = Some(code)]
    /\ pc' = [pc EXCEPT ![i] = "exited"]

Log(i, call) == calls' = [calls EXCEPT ![i] = Append(@, call)]

\* What load_config can return: the services, an io::Error of
\* fs::read_to_string, or a serde_yaml::Error
ConfigLoads == {"ok", "unreadable", "undecodable"}

\* Argument vectors tried with a configuration that does not load
BadConfigArgs ==
    {<<"svc">>, <<"svc", "run", "app">>, <<"svc", "kill", "ghost">>,
     <<"svc", "run", "tool", "at", OverrideDir>>}

\* main ends before any external command: an Err returned, or exit(1)
Stop(r) ==
    [pc |-> "exited", cmd |-> "none", svc |-> "none", work_at |-> <<>>,
     result |-> r, exit_code |-> Some(1)]

\* main goes on to the first external command of command c on service n
Start(c, n, at, w) ==
    [pc |-> at, cmd |-> c, svc |-> n, work_at |-> w,
     result |-> NoResult, exit_code |-> None]

\* The override form handing the stored work_at on when the service has one
override_work_at_stored(dir, service) ==
    IF service.work_at # <<>> THEN service.work_at ELSE dir

\* let work_at = &args[4]: the directory of `run <service> at <dir>`
override_work_at(dir, service) == dir

\* main with the arguments looked at before the configuration is loaded
dispatch_args_first(cfg, args) ==
    IF Len(args) # 3 /\ ~(Len(args) = 5 /\ args[2] = "run" /\ args[4] = "at")
    THEN Stop(Err("exit:usage"))
    ELSE IF cfg = "unreadable" THEN Stop(Err("IoError"))
    ELSE IF cfg = "undecodable" THEN Stop(Err("YamlError"))
    ELSE IF args[3] \notin Names THEN Stop(Err("exit:not found"))
    ELSE IF Len(args) = 5
         THEN Start("run_at", args[3], "launch", override_work_at(args[5], service_map(args[3])))
    ELSE IF args[2] \in Commands THEN Start(args[2], args[3], "ps_query", <<>>)
    ELSE Stop(Err("exit:invalid command"))

\* main from load_config to the dispatch: the configuration first, then the
\* override form, the argument count, the lookup by name and the command
dispatch(cfg, args) ==
    IF cfg = "unreadable" THEN Stop(Err("IoError"))
    ELSE IF cfg = "undecodable" THEN Stop(Err("YamlError"))
    ELSE IF Len(args) = 5 /\ args[2] = "run" /\ args[4] = "at"
         THEN IF args[3] \in Names
              THEN Start("run_at", args[3], "launch",
                         override_work_at(args[5], service_map(args[3])))
              ELSE Stop(Err("exit:not found"))
    ELSE IF Len(args) # 3 THEN Stop(Err("exit:usage"))
    ELSE IF args[3] \in Names
         THEN IF args[2] \in Commands
              THEN Start(args[2], args[3], "ps_query", <<>>)
              ELSE Stop(Err("exit:invalid command"))
    ELSE Stop(Err("exit:not found"))

\* main up to its first external command: load_config, the argument checks,
\* the lookup by name and the dispatch
main(i) ==
    /\ i \in active
    /\ pc[i] \in {"idle", "exited"}
    /\ \E cfg \in ConfigLoads :
       \E args \in (IF cfg = "ok" THEN ArgVectors ELSE BadConfigArgs) :
         \E d \in {dispatch(cfg, args)} :
            /\ config' = [config EXCEPT ![i] = cfg]
            /\ argv' = [argv EXCEPT ![i] = args]
            /\ pc' = [pc EXCEPT ![i] = d.pc]
            /\ cmd' = [cmd EXCEPT ![i] = d.cmd]
            /\ svc' = [svc EXCEPT ![i] = d.svc]
            /\ work_at' = [work_at EXCEPT ![i] = d.work_at]
            /\ result' = [result EXCEPT ![i] = d.result]
            /\ exit_code' = [exit_code EXCEPT ![i] = d.exit_code]
    /\ pids' = [pids EXCEPT ![i] = <<>>]
    /\ is_start_up' = [is_start_up EXCEPT ![i] = FALSE]
    /\ todo' = [todo EXCEPT ![i] = <<>>]
    /\ child' = [child EXCEPT ![i] = 0]
    /\ calls' = [calls EXCEPT ![i] = <<>>]
    /\ UNCHANGED <<procs, reg, active, lastReg, stdout, parsed, probe, resolved>>

\* --------------------------------------------------------------- get_status

\* What the enumeration prints: the identifier of every process whose
\* executable path contains `path`, one per line, in table order
RECURSIVE Enumerate(_, _, _)
Enumerate(table, path, p) ==
    IF p > MaxPid THEN <<>>
    ELSE (IF table[p] # NoProc /\ Contains(table[p], path)
          THEN ToDigits(p) \o <<"\r", "\n">> ELSE <<>>)
         \o Enumerate(table, path, p + 1)

\* The enumeration with its error swallowed: a query that could not be run
\* counts as "no process"
pids_of_query_lenient(out, text) ==
    [ok |-> TRUE, pids |-> IF out = "spawn_fail" THEN <<>> ELSE ParsePids(text)]

\* `?` on the enumeration: a query that could not be run is an error,
\* otherwise its output is parsed
pids_of_query(out, text) ==
    IF out = "spawn_fail" THEN [ok |-> FALSE, pids |-> <<>>]
    ELSE [ok |-> TRUE, pids |-> ParsePids(text)]

\* get_status, first block: the powershell query and the parse of its output
get_status_pids(i) ==
    /\ pc[i] = "ps_query"
    /\ \E out \in {"spawn_fail", "exit0"} :
       \E text \in {Enumerate(procs, Service(i).path, 1)} :
       \E r \in {pids_of_query(out, text)} :
            /\ Log(i, Call("powershell", Service(i).path, "", 0, <<>>, out))
            /\ IF r.ok
               THEN /\ pids' = [pids EXCEPT ![i] = r.pids]
                    /\ pc' = [pc EXCEPT ![i] = "reg_query"]
                    /\ UNCHANGED <<result, exit_code>>
               ELSE /\ Exit(i, Err("IoError"), 1)
                    /\ UNCHANGED pids
    /\ UNCHANGED <<procs, reg, active, cmd, svc, is_start_up, todo, work_at,
                   child, lastReg, stdout, parsed, config, argv, probe, resolved>>

\* is_start_up computed as "did not report absence": a missing exit code
\* counts as enabled
start_up_unless_one(code) == code # Some(1)

\* is_start_up = exit_code == Some(0)
start_up_of(code) == code = Some(0)

\* `?` on the registry query: a query that could not be run is an error,
\* otherwise its exit code decides the flag
start_up_of_query(out) ==
    IF out = "spawn_fail" THEN [ok |-> FALSE, flag |-> FALSE]
    ELSE [ok |-> TRUE, flag |-> start_up_of(CodeOf(out))]

\* run_service without its precondition
run_service_unchecked(st) == "launch"

\* run_service: the precondition, then the working directory
run_service_pre(st) == IF st.pids # <<>> THEN "ServiceIsRunning" ELSE "launch"

\* The parent directory of the path preferred to a stored work_at
resolve_work_at_parent_first(service) ==
    LET d == parent(service.path)
    IN IF d.some /\ d.val # <<>> THEN d.val
       ELSE IF service.work_at = <<>> THEN CurDir ELSE service.work_at

resolve_work_at(service) ==
    IF service.work_at = <<>>
    THEN LET d == parent(service.path) IN IF d.some THEN d.val ELSE CurDir
    ELSE service.work_at

\* enable_service without its precondition
enable_service_unchecked(st) == "reg_add"

\* kill_service without its precondition: the loop over no identifiers
\* ends at once and kill returns Ok
kill_service_unchecked(st) == IF st.pids = <<>> THEN "printed" ELSE "taskkill"

\* enable_service, disable_service, kill_service: the precondition
enable_service_pre(st) == IF st.is_start_up THEN "ServiceIsEnabled" ELSE "reg_add"

disable_service_pre(st) == IF ~st.is_start_up THEN "ServiceIsDisabled" ELSE "reg_delete"

kill_service_pre(st) == IF st.pids = <<>> THEN "ServiceIsNotRunning" ELSE "taskkill"

\* The identifiers that are still alive visited before the others
kill_order_live_first(ps) ==
    SelectSeq(ps, LAMBDA p : procs[p] # NoProc) \o SelectSeq(ps, LAMBDA p : procs[p] = NoProc)

\* Every identifier tried a second time after the first round
kill_order_twice(ps) == ps \o ps

\* The identifiers visited last to first
kill_order_reversed(ps) == [k \in 1..Len(ps) |-> ps[Len(ps) + 1 - k]]

\* for pid in pids: the identifiers in the order of the snapshot
kill_order(ps) == ps

\* The dispatch with run taking the way of enable
after_status_run_enables(c, st) ==
    CASE c \in {"run", "enable"} -> enable_service_pre(st)
      [] c = "disable" -> disable_service_pre(st)
      [] c = "kill" -> kill_service_pre(st)
      [] OTHER -> "printed"

\* The dispatch with status writing the entry it found missing
after_status_status_enables(c, st) ==
    CASE c = "run" -> run_service_pre(st)
      [] c = "disable" -> disable_service_pre(st)
      [] c = "kill" -> kill_service_pre(st)
      [] OTHER -> IF enable_service_pre(st) = "reg_add" THEN "reg_add" ELSE "printed"

\* What the command does with the status it asked for: an error kind, the
\* next external command, or (print_status) done
after_status(c, st) ==
    CASE c = "run" -> run_service_pre(st)
      [] c = "enable" -> enable_service_pre(st)
      [] c = "disable" -> disable_service_pre(st)
      [] c = "kill" -> kill_service_pre(st)
      [] OTHER -> "printed"

\* The registry query's possible endings: code 0 only for an entry that is
\* there, a non-zero code only for one that is not, no code at any time
RegQueryOuts(n) ==
    {"spawn_fail", "abnormal"} \cup (IF n \in reg THEN {"exit0"} ELSE {"exit1"})

\* get_status, second block: the reg query; then the caller's use of the
\* snapshot up to its next external command
get_status_start_up(i) ==
    /\ pc[i] = "reg_query"
    /\ \E out \in RegQueryOuts(svc[i]) :
         LET r == start_up_of_query(out)
             st == [pids |-> pids[i], is_start_up |-> r.flag]
             next == after_status(cmd[i], st)
         IN /\ Log(i, Call("reg query", <<>>, svc[i], 0, <<>>, out))
            /\ IF ~r.ok
               THEN /\ Exit(i, Err("IoError"), 1)
                    /\ UNCHANGED <<is_start_up, todo, work_at>>
               ELSE /\ is_start_up' = [is_start_up EXCEPT ![i] = r.flag]
                    /\ IF next = "printed"
                       THEN Exit(i, Ok, 0) /\ UNCHANGED <<todo, work_at>>
                       ELSE IF next \in {"launch", "reg_add", "reg_delete", "taskkill"}
                       THEN /\ pc' = [pc EXCEPT ![i] = next]
                            /\ todo' = [todo EXCEPT ![i] =
                                           IF next = "taskkill" THEN kill_order(pids[i]) ELSE <<>>]
                            /\ work_at' = [work_at EXCEPT ![i] =
                                           IF next = "launch"
                                           THEN resolve_work_at(Service(i)) ELSE <<>>]
                            /\ UNCHANGED <<result, exit_code>>
                       ELSE Exit(i, Err(next), 1) /\ UNCHANGED <<todo, work_at>>
    /\ UNCHANGED <<procs, reg, active, cmd, svc, pids, child, lastReg, stdout, parsed, config, argv, probe, resolved>>

\* ---------------------------------------------------------------------- run

\* if !work_at.is_empty() { command.current_dir(work_at) }
cwd_of(w) == IF w # <<>> THEN w ELSE CurDir

FreePids == {p \in Pids : procs[p] = NoProc}

\* command.spawn()?: Ok as soon as the process exists
spawn_result(out) == IF out = "spawn_fail" THEN Err("IoError") ELSE Ok

\* run_executable: spawn the binary and return
run_executable(i) ==
    /\ pc[i] = "launch"
    /\ Service(i).service_type = "Executable"
    /\ \/ /\ Log(i, Call("spawn", Service(i).path, "", 0, cwd_of(work_at[i]), "spawn_fail"))
          /\ Exit(i, spawn_result("spawn_fail"), 1)
          /\ UNCHANGED procs
       \/ \E p \in FreePids :
            /\ procs' = [procs EXCEPT ![p] = Service(i).path]
            /\ Log(i, Call("spawn", Service(i).path, "", p, cwd_of(work_at[i]), "spawned"))
            /\ Exit(i, spawn_result("spawned"), 0)
    /\ UNCHANGED <<reg, active, cmd, svc, pids, is_start_up, todo, work_at, child,
                   lastReg, stdout, parsed, config, argv, probe, resolved>>

\* run_util up to command.status(): the interpreter is started with the
\* path as its argument
run_util_spawn(i) ==
    /\ pc[i] = "launch"
    /\ Service(i).service_type = "Util"
    /\ \/ /\ Log(i, Call("interpreter", Service(i).path, "", 0, cwd_of(work_at[i]), "spawn_fail"))
          /\ Exit(i, Err("IoError"), 1)
          /\ UNCHANGED <<procs, child>>
       \/ \E p \in FreePids :
            /\ procs' = [procs EXCEPT ![p] = Service(i).interpreter]
            /\ child' = [child EXCEPT ![i] = p]
            /\ Log(i, Call("interpreter", Service(i).path, "", p, cwd_of(work_at[i]), "spawned"))
            /\ pc' = [pc EXCEPT ![i] = "util_wait"]
            /\ UNCHANGED <<result, exit_code>>
    /\ UNCHANGED <<reg, active, cmd, svc, pids, is_start_up, todo, work_at,
                   lastReg, stdout, parsed, config, argv, probe, resolved>>

\* run_util without the look at the exit status
util_result_ignored(path, code) == Ok

\* if status.success() { Ok(()) } else { Err(IoError("Utility <path> failed
\* to run with error: <status>")) }
util_result(path, code) ==
    IF success(code) THEN Ok
    ELSE [kind |-> "IoError", path |-> path, status |-> code]

\* run_util from command.status() on: the interpreter has exited (by itself
\* with any status, or because something terminated it)
run_util_wait(i) ==
    /\ pc[i] = "util_wait"
    /\ \E out \in (IF procs[child[i]] = Service(i).interpreter
                   THEN {"exit0", "exit1", "abnormal"} ELSE {"exit1"}) :
         LET r == util_result(Service(i).path, CodeOf(out))
         IN /\ Log(i, Call("wait", Service(i).path, "", child[i], <<>>, out))
            /\ Exit(i, r, IF r = Ok THEN 0 ELSE 1)
    /\ procs' = [procs EXCEPT ![child[i]] =
                    IF @ = Service(i).interpreter THEN NoProc ELSE @]
    /\ UNCHANGED <<reg, active, cmd, svc, pids, is_start_up, todo, work_at, child,
                   lastReg, stdout, parsed, config, argv, probe, resolved>>

\* ----------------------------------------------------------- enable, disable

\* Command::new("reg")...status()?; println!(..); Ok(()): the exit status of
\* the command is not looked at
\* The registry command's exit status looked at, as run_util looks at its own
reg_result_checked(out) == IF out = "exit0" THEN Ok ELSE Err("IoError")

reg_result(out) == IF out = "spawn_fail" THEN Err("IoError") ELSE Ok

\* enable_service after its precondition: reg add <key> /v name ... /f
enable_service(i) ==
    /\ pc[i] = "reg_add"
    /\ \E out \in {"spawn_fail", "exit0", "exit1"} :
         LET r == reg_result(out)
         IN /\ Log(i, Call("reg add", Service(i).path, svc[i], 0, <<>>, out))
            /\ reg' = IF out = "exit0" THEN reg \cup {svc[i]} ELSE reg
            /\ Exit(i, r, IF r = Ok THEN 0 ELSE 1)
            /\ lastReg' = IF r = Ok THEN [lastReg EXCEPT ![svc[i]] = "enable"]
                          ELSE lastReg
    /\ UNCHANGED <<procs, active, cmd, svc, pids, is_start_up, todo, work_at, child,
                   stdout, parsed, config, argv, probe, resolved>>

\* reg delete ends with code 0 only if it removed an entry
RegDeleteOuts(n) ==
    {"spawn_fail", "exit1"} \cup (IF n \in reg THEN {"exit0"} ELSE {})

\* disable_service after its precondition: reg delete <key> /v name /f
disable_service(i) ==
    /\ pc[i] = "reg_delete"
    /\ \E out \in RegDeleteOuts(svc[i]) :
         LET r == reg_result(out)
         IN /\ Log(i, Call("reg delete", <<>>, svc[i], 0, <<>>, out))
            /\ reg' = IF out = "exit0" THEN reg \ {svc[i]} ELSE reg
            /\ Exit(i, r, IF r = Ok THEN 0 ELSE 1)
            /\ lastReg' = IF r = Ok THEN [lastReg EXCEPT ![svc[i]] = "disable"]
                          ELSE lastReg
    /\ UNCHANGED <<procs, active, cmd, svc, pids, is_start_up, todo, work_at, child,
                   stdout, parsed, config, argv, probe, resolved>>

\* --------------------------------------------------------------------- kill

\* taskkill ends with code 0 only if it terminated a process
TaskkillOuts(p) ==
    {"spawn_fail", "exit1"} \cup (IF p \in Pids /\ procs[p] # NoProc THEN {"exit0"} ELSE {})

\* The loop left on any termination that did not succeed
kill_aborts_on_failure(out) == out # "exit0"

\* Command::new("taskkill")...output()?: only a command that could not be
\* run leaves the loop
kill_aborts(out) == out = "spawn_fail"

\* kill_service after its precondition: one turn of `for pid in pids`
kill_service(i) ==
    /\ pc[i] = "taskkill"
    /\ LET p == Head(todo[i])
       IN \E out \in TaskkillOuts(p) :
            /\ Log(i, Call("taskkill", <<>>, "", p, <<>>, out))
            /\ procs' = IF out = "exit0" THEN [procs EXCEPT ![p] = NoProc] ELSE procs
            /\ IF kill_aborts(out)
               THEN Exit(i, Err("IoError"), 1) /\ UNCHANGED todo
               ELSE /\ todo' = [todo EXCEPT ![i] = Tail(@)]
                    /\ IF Tail(todo[i]) = <<>>
                       THEN Exit(i, Ok, 0)
                       ELSE UNCHANGED <<pc, result, exit_code>>
    /\ UNCHANGED <<reg, active, cmd, svc, pids, is_start_up, work_at, child,
                   lastReg, stdout, parsed, config, argv, probe, resolved>>

\* ------------------------------------------------------- the operating system

Awaited == {child[i] : i \in {j \in Clis : pc[j] = "util_wait"}}

\* A process the tool did not start appears
os_proc_start(p, exe) ==
    /\ procs[p] = NoProc
    /\ procs' = [procs EXCEPT ![p] = exe]
    /\ UNCHANGED <<reg, active, pc, cmd, svc, pids, is_start_up, todo, work_at,
                   child, result, exit_code, calls, lastReg, stdout, parsed, config, argv, probe, resolved>>

\* A process ends by itself (the exit of an interpreter that run_util waits
\* for is run_util_wait)
os_proc_exit(p) ==
    /\ procs[p] # NoProc
    /\ p \notin Awaited
    /\ procs' = [procs EXCEPT ![p] = NoProc]
    /\ UNCHANGED <<reg, active, pc, cmd, svc, pids, is_start_up, todo, work_at,
                   child, result, exit_code, calls, lastReg, stdout, parsed, config, argv, probe, resolved>>

\* Something other than the tool adds or removes the auto-start entry
os_reg_change(n) ==
    /\ reg' = IF n \in reg THEN reg \ {n} ELSE reg \cup {n}
    /\ lastReg' = [lastReg EXCEPT ![n] = "none"]
    /\ UNCHANGED <<procs, active, pc, cmd, svc, pids, is_start_up, todo, work_at,
                   child, result, exit_code, calls, stdout, parsed, config, argv, probe, resolved>>

\* ------------------------------------------------------------ specification

Step(i) ==
    \/ main(i)
    \/ get_status_pids(i)
    \/ get_status_start_up(i)
    \/ run_executable(i)
    \/ run_util_spawn(i)
    \/ run_util_wait(i)
    \/ enable_service(i)
    \/ disable_service(i)
    \/ kill_service(i)

Environment ==
    \/ \E p \in Pids, exe \in Exes : os_proc_start(p, exe)
    \/ \E p \in Pids : os_proc_exit(p)
    \/ \E n \in Names : os_reg_change(n)

Next == (\E i \in Clis : Step(i)) \/ Environment

Spec == Init /\ [][Next]_vars

\* ------------------------------------------------ the parse, on any output

\* The characters process-enumeration outputs are drawn from
OutChars == {"1", "2", "x", "+", " ", "\r", "\n"}

Outputs == UNION {[1..k -> OutChars] : k \in 0..MaxOut}

InitParse ==
    /\ procs = [p \in Pids |-> NoProc]
    /\ reg = {}
    /\ active = {}
    /\ pc = [i \in Clis |-> "idle"]
    /\ cmd = [i \in Clis |-> "none"]
    /\ svc = [i \in Clis |-> "none"]
    /\ pids = [i \in Clis |-> <<>>]
    /\ is_start_up = [i \in Clis |-> FALSE]
    /\ todo = [i \in Clis |-> <<>>]
    /\ work_at = [i \in Clis |-> <<>>]
    /\ child = [i \in Clis |-> 0]
    /\ result = [i \in Clis |-> NoResult]
    /\ exit_code = [i \in Clis |-> None]
    /\ calls = [i \in Clis |-> <<>>]
    /\ lastReg = [n \in Names |-> "none"]
    /\ stdout \in Outputs
    /\ parsed = Unparsed
    /\ config = [i \in Clis |-> "none"]
    /\ argv = [i \in Clis |-> <<>>]
    /\ probe = NoProbe
    /\ resolved = Unresolved

\* get_status collects the identifiers from the output it was given
parse_output ==
    /\ ~parsed.done
    /\ parsed' = [done |-> TRUE, pids |-> ParsePids(stdout)]
    /\ UNCHANGED <<procs, reg, active, pc, cmd, svc, pids, is_start_up, todo,
                   work_at, child, result, exit_code, calls, lastReg, stdout,
                   config, argv, probe, resolved>>

NextParse == parse_output

SpecParse == InitParse /\ [][NextParse]_vars

\* ------------------------------------------------- concurrent invocations

\* The service the concurrent invocations are about
RaceService == "app"

\* Two invocations of the tool at once, each run one time, with any
\* processes of the service there already
InitRace ==
    /\ procs \in [Pids -> {NoProc, service_map(RaceService).path}]
    /\ reg = {}
    /\ active = Clis
    /\ pc = [i \in Clis |-> "idle"]
    /\ cmd = [i \in Clis |-> "none"]
    /\ svc = [i \in Clis |-> "none"]
    /\ pids = [i \in Clis |-> <<>>]
    /\ is_start_up = [i \in Clis |-> FALSE]
    /\ todo = [i \in Clis |-> <<>>]
    /\ work_at = [i \in Clis |-> <<>>]
    /\ child = [i \in Clis |-> 0]
    /\ result = [i \in Clis |-> NoResult]
    /\ exit_code = [i \in Clis |-> None]
    /\ calls = [i \in Clis |-> <<>>]
    /\ lastReg = [n \in Names |-> "none"]
    /\ stdout = <<>>
    /\ parsed = Unparsed
    /\ config = [i \in Clis |-> "none"]
    /\ argv = [i \in Clis |-> <<>>]
    /\ probe = NoProbe
    /\ resolved = Unresolved

\* The commands of the concurrent invocations
RaceCommands == {"run", "enable", "kill"}

\* main of an invocation given one of these commands on that service
main_command(i) ==
    /\ pc[i] = "idle"
    /\ main(i)
    /\ cmd'[i] \in RaceCommands
    /\ svc'[i] = RaceService

StepRace(i) ==
    \/ main_command(i)
    \/ get_status_pids(i)
    \/ get_status_start_up(i)
    \/ run_executable(i)
    \/ enable_service(i)
    \/ kill_service(i)

NextRace == (\E i \in Clis : StepRace(i)) \/ (\E p \in Pids : os_proc_exit(p))

SpecRace == InitRace /\ [][NextRace]_vars

\* ------------------------------------------- one invocation, run to its end

\* main at the start of the process
main_once(i) == pc[i] = "idle" /\ main(i)

\* The steps of an invocation after main's dispatch: each one is the return
\* of the external command the invocation is at
Proceed(i) ==
    \/ get_status_pids(i)
    \/ get_status_start_up(i)
    \/ run_executable(i)
    \/ run_util_spawn(i)
    \/ run_util_wait(i)
    \/ enable_service(i)
    \/ disable_service(i)
    \/ kill_service(i)

NextLive == (\E i \in Clis : main_once(i) \/ Proceed(i)) \/ Environment

\* Every external command the invocation is at returns
Returns == \A i \in Clis : WF_vars(Proceed(i))

SpecLive == Init /\ [][NextLive]_vars /\ Returns

\* ------------------------------------------- working directory of a launch

PathChars == {"/", "a", "b"}

\* Paths as Path::components leaves them: no empty component and no
\* trailing separator, the root alone excepted
Normalised(p) ==
    /\ \A k \in 1..(Len(p) - 1) : ~(p[k] = "/" /\ p[k + 1] = "/")
    /\ Len(p) > 1 => p[Len(p)] # "/"

Paths ==
    {p \in UNION {[1..n -> PathChars] : n \in 0..MaxPath} : Normalised(p)}

\* The work_at fields tried: absent (the default), a directory, the root
WorkAts == {default_work_at, <<"/", "w">>, <<"/">>}

InitWorkAt ==
    /\ procs = [p \in Pids |-> NoProc]
    /\ reg = {}
    /\ active = {}
    /\ pc = [i \in Clis |-> "idle"]
    /\ cmd = [i \in Clis |-> "none"]
    /\ svc = [i \in Clis |-> "none"]
    /\ pids = [i \in Clis |-> <<>>]
    /\ is_start_up = [i \in Clis |-> FALSE]
    /\ todo = [i \in Clis |-> <<>>]
    /\ work_at = [i \in Clis |-> <<>>]
    /\ child = [i \in Clis |-> 0]
    /\ result = [i \in Clis |-> NoResult]
    /\ exit_code = [i \in Clis |-> None]
    /\ calls = [i \in Clis |-> <<>>]
    /\ lastReg = [n \in Names |-> "none"]
    /\ stdout = <<>>
    /\ parsed = Unparsed
    /\ config = [i \in Clis |-> "none"]
    /\ argv = [i \in Clis |-> <<>>]
    /\ probe \in [path : Paths, work_at : WorkAts]
    /\ resolved = Unresolved

\* run_service from the resolution of work_at to the current_dir of the
\* command it builds
launch_dir ==
    /\ ~resolved.done
    /\ resolved' = [done |-> TRUE, dir |-> cwd_of(resolve_work_at(probe))]
    /\ UNCHANGED <<procs, reg, active, pc, cmd, svc, pids, is_start_up, todo,
                   work_at, child, result, exit_code, calls, lastReg, stdout,
                   parsed, config, argv, probe>>

NextWorkAt == launch_dir

SpecWorkAt == InitWorkAt /\ [][NextWorkAt]_vars

\* ------------------------------------------------------------------ claims

\* The lines of an output, stated by position: a line starts at the first
\* character and after every "\n", and runs up to the next "\n" or the end.
LineStarts(s) == {k \in 1..Len(s) : k = 1 \/ s[k - 1] = "\n"}

LineEnd(s, k) ==
    IF \E e \in k..Len(s) : s[e] = "\n"
    THEN (CHOOSE e \in k..Len(s) : s[e] = "\n" /\ \A j \in k..(e - 1) : s[j] # "\n") - 1
    ELSE Len(s)

LineAt(s, k) == SubSeq(s, k, LineEnd(s, k))

\* A line without the whitespace at its two ends
Core(t) ==
    LET ink == {k \in 1..Len(t) : ~IsSpace(t[k])}
    IN IF ink = {} THEN <<>>
       ELSE SubSeq(t, CHOOSE a \in ink : \A b \in ink : a <= b,
                      CHOOSE a \in ink : \A b \in ink : a >= b)

Unsigned(t) == IF t # <<>> /\ t[1] = "+" THEN Tail(t) ELSE t

\* The text is an unsigned decimal integer
IsUInt(t) == Unsigned(t) # <<>> /\ \A k \in 1..Len(Unsigned(t)) : IsDigit(Unsigned(t)[k])

RECURSIVE Pow10(_)
Pow10(n) == IF n = 0 THEN 1 ELSE 10 * Pow10(n - 1)

RECURSIVE SumOver(_, _)
SumOver(d, k) ==
    IF k > Len(d) THEN 0 ELSE DigitVal(d[k]) * Pow10(Len(d) - k) + SumOver(d, k + 1)

UIntValue(t) == SumOver(Unsigned(t), 1)

RECURSIVE Ascending(_)
Ascending(S) ==
    IF S = {} THEN <<>>
    ELSE LET m == CHOOSE a \in S : \A b \in S : a <= b
         IN <<m>> \o Ascending(S \ {m})

ExpectedPids(s) ==
    LET good == Ascending({k \in LineStarts(s) : IsUInt(Core(LineAt(s, k)))})
    IN [j \in 1..Len(good) |-> UIntValue(Core(LineAt(s, good[j])))]

\* C10: the identifiers collected from an enumeration output are exactly the
\* values of its lines that, trimmed, are unsigned integers, in the order of
\* the lines; any other line is dropped and nothing fails.
C10_ParsedPids == parsed.done => parsed.pids = ExpectedPids(stdout)

\* C10 witness: a parsed output of three lines, the middle one no number,
\* that gave exactly the two numbers
C10_Witness ==
    /\ parsed.done
    /\ stdout = <<"1", "\n", "x", "\n", "2">>
    /\ parsed.pids = <<1, 2>>

\* The external commands of kind c that invocation i has issued, in order
RECURSIVE Select(_, _)
Select(log, C) ==
    IF log = <<>> THEN <<>>
    ELSE (IF Head(log).cmd \in C THEN <<Head(log)>> ELSE <<>>) \o Select(Tail(log), C)

Launches(i) == Select(calls[i], {"spawn", "interpreter"})

Kills(i) == Select(calls[i], {"taskkill"})

\* Invocation i has run both queries of get_status and got its snapshot
SnapshotTaken(i) ==
    /\ Len(calls[i]) >= 2
    /\ calls[i][1].cmd = "powershell" /\ calls[i][1].out # "spawn_fail"
    /\ calls[i][2].cmd = "reg query" /\ calls[i][2].out # "spawn_fail"

\* C1: run (run_service) launches only after both status queries; with a
\* snapshot whose process set is non-empty it ends with ServiceIsRunning and
\* no launch request, with an empty one it issues exactly one launch request.
C1_RunPrecondition ==
    \A i \in Clis :
        cmd[i] = "run" =>
            /\ Launches(i) # <<>> => SnapshotTaken(i) /\ calls[i][3].cmd \in {"spawn", "interpreter"}
            /\ SnapshotTaken(i) /\ pids[i] # <<>> =>
                   /\ pc[i] = "exited"
                   /\ result[i] = Err("ServiceIsRunning")
                   /\ Launches(i) = <<>>
            /\ SnapshotTaken(i) /\ pids[i] = <<>> =>
                   \/ pc[i] = "launch" /\ Launches(i) = <<>>
                   \/ pc[i] \in {"util_wait", "exited"} /\ Len(Launches(i)) = 1

\* C1 witness: a run that found the service running and refused
C1_Witness ==
    \E i \in Clis :
        /\ cmd[i] = "run" /\ SnapshotTaken(i) /\ pids[i] # <<>>
        /\ result[i] = Err("ServiceIsRunning") /\ Len(calls[i]) = 2

\* The step in which invocation i, running command c, gets its snapshot
SnapshotStep(i, c) ==
    /\ cmd[i] = c
    /\ pc[i] = "reg_query"
    /\ pc'[i] # "reg_query"
    /\ SnapshotTaken(i)'

\* C2: a kill whose snapshot has no process ends with ServiceIsNotRunning in
\* that very step, has issued no termination command, and leaves the
\* process table as it was.
C2_KillNotRunning ==
    [][\A i \in Clis :
          SnapshotStep(i, "kill") /\ pids[i] = <<>> =>
              /\ pc'[i] = "exited"
              /\ result'[i] = Err("ServiceIsNotRunning")
              /\ exit_code'[i] = Some(1)
              /\ Kills(i)' = <<>>
              /\ procs' = procs]_vars

\* C2 witness: a kill that ended with ServiceIsNotRunning after its two queries
C2_Witness ==
    \E i \in Clis :
        /\ cmd[i] = "kill" /\ SnapshotTaken(i) /\ pids[i] = <<>>
        /\ result[i] = Err("ServiceIsNotRunning") /\ Len(calls[i]) = 2

\* The registry query of invocation i ended with an exit code
QueryGaveCode(i) == calls[i][2].out \in {"exit0", "exit1"}

\* C3: an enable whose status query finds the entry present ends with
\* ServiceIsEnabled without a reg add; a disable whose status query finds
\* the entry absent ends with ServiceIsDisabled without a reg delete; the
\* store is the same after the step.
C3_EnableDisablePrecondition ==
    [][\A i \in Clis :
          /\ SnapshotStep(i, "enable") /\ QueryGaveCode(i)' /\ svc[i] \in reg =>
                 /\ pc'[i] = "exited"
                 /\ result'[i] = Err("ServiceIsEnabled")
                 /\ Select(calls[i], {"reg add", "reg delete"})' = <<>>
                 /\ reg' = reg
          /\ SnapshotStep(i, "disable") /\ QueryGaveCode(i)' /\ svc[i] \notin reg =>
                 /\ pc'[i] = "exited"
                 /\ result'[i] = Err("ServiceIsDisabled")
                 /\ Select(calls[i], {"reg add", "reg delete"})' = <<>>
                 /\ reg' = reg]_vars

\* C3 witness: an enable refused for an entry that is in the store
C3_Witness ==
    \E i \in Clis :
        /\ cmd[i] = "enable" /\ SnapshotTaken(i) /\ svc[i] \in reg
        /\ result[i] = Err("ServiceIsEnabled") /\ Len(calls[i]) = 2

\* C4 (as claimed): an enable that follows an enable that returned Ok, with
\* no disable and no outside change in between, ends with ServiceIsEnabled;
\* a disable that follows a disable that returned Ok ends with ServiceIsDisabled.
C4_RepeatFails ==
    [][\A i \in Clis :
          /\ SnapshotStep(i, "enable") /\ QueryGaveCode(i)' /\ lastReg[svc[i]] = "enable" =>
                 result'[i] = Err("ServiceIsEnabled")
          /\ SnapshotStep(i, "disable") /\ QueryGaveCode(i)' /\ lastReg[svc[i]] = "disable" =>
                 result'[i] = Err("ServiceIsDisabled")]_vars

\* C5 (as claimed): the snapshot of a status query taken after an enable
\* that returned Ok, with no disable and no outside change in between, has
\* is_start_up true; after a disable that returned Ok it has is_start_up false.
C5_RoundTrip ==
    [][\A i \in Clis :
          /\ SnapshotStep(i, "status") /\ QueryGaveCode(i)' /\ lastReg[svc[i]] = "enable" =>
                 is_start_up'[i] = TRUE
          /\ SnapshotStep(i, "status") /\ QueryGaveCode(i)' /\ lastReg[svc[i]] = "disable" =>
                 is_start_up'[i] = FALSE]_vars

\* The identifiers of the termination commands issued so far
KilledPids(i) == [k \in 1..Len(Kills(i)) |-> Kills(i)[k].pid]

IsPrefix(a, b) == Len(a) <= Len(b) /\ SubSeq(b, 1, Len(a)) = a

\* C6 (as claimed): a kill with a non-empty snapshot that has ended has
\* issued a termination command for every identifier of the snapshot.
C6_KillsEveryPid ==
    \A i \in Clis :
        cmd[i] = "kill" /\ SnapshotTaken(i) /\ pids[i] # <<>> /\ pc[i] = "exited" =>
            KilledPids(i) = pids[i]

\* C6 (amended): a kill with a non-empty snapshot issues its termination
\* commands for the snapshot's identifiers in snapshot order; a command that
\* ran, whatever its exit code, is followed by the command for the next
\* identifier, and kill returns Ok exactly when every identifier got its
\* command; only a command that could not be started ends the loop, with
\* an IO error and no command for the identifiers after it.
C6_KillBestEffort ==
    \A i \in Clis :
        cmd[i] = "kill" /\ SnapshotTaken(i) /\ pids[i] # <<>> =>
            /\ IsPrefix(KilledPids(i), pids[i])
            /\ \A k \in 1..(Len(Kills(i)) - 1) : Kills(i)[k].out # "spawn_fail"
            /\ pc[i] = "taskkill" =>
                   /\ KilledPids(i) \o todo[i] = pids[i]
                   /\ todo[i] # <<>>
                   /\ \A k \in 1..Len(Kills(i)) : Kills(i)[k].out # "spawn_fail"
            /\ pc[i] = "exited" =>
                   \/ /\ result[i] = Ok
                      /\ KilledPids(i) = pids[i]
                      /\ \A k \in 1..Len(Kills(i)) : Kills(i)[k].out # "spawn_fail"
                   \/ /\ result[i] = Err("IoError")
                      /\ Kills(i)[Len(Kills(i))].out = "spawn_fail"

\* C6 witness: a kill of two identifiers that returned Ok although the
\* termination of the first one failed
C6_Witness ==
    \E i \in Clis :
        /\ cmd[i] = "kill" /\ pc[i] = "exited" /\ result[i] = Ok
        /\ Len(pids[i]) = 2 /\ KilledPids(i) = pids[i]
        /\ Kills(i)[1].out = "exit1"

\* C7: run of an Executable returns Ok in the step in which the process is
\* spawned and never waits; run of a Util has not returned while the
\* interpreter runs, and returns Ok exactly if the interpreter ended with
\* code 0, otherwise an IoError carrying the launched path and the status.
C7_RunAsymmetry ==
    \A i \in Clis :
        cmd[i] \in {"run", "run_at"} /\ Launches(i) # <<>> =>
            LET launch == Launches(i)[1]
                waits == Select(calls[i], {"wait"})
            IN IF Service(i).service_type = "Executable"
               THEN /\ waits = <<>>
                    /\ pc[i] = "exited"
                    /\ launch.out = "spawned" <=> result[i] = Ok
               ELSE /\ launch.out = "spawned" /\ waits = <<>> =>
                        pc[i] = "util_wait" /\ result[i] = NoResult
                    /\ launch.out = "spawned" /\ waits # <<>> =>
                        /\ pc[i] = "exited"
                        /\ waits[1].out = "exit0" <=> result[i] = Ok
                        /\ waits[1].out # "exit0" =>
                               result[i] = [kind |-> "IoError", path |-> Service(i).path,
                                            status |-> CodeOf(waits[1].out)]
                    /\ launch.out = "spawn_fail" =>
                        waits = <<>> /\ result[i] = Err("IoError")

\* C7 witness: a Util run that returned the IoError of a non-zero exit
C7_Witness ==
    \E i \in Clis :
        /\ cmd[i] = "run" /\ Service(i).service_type = "Util" /\ pc[i] = "exited"
        /\ result[i] = [kind |-> "IoError", path |-> Service(i).path, status |-> Some(1)]

\* C8: each of the two status queries is issued at most once per invocation;
\* if either cannot be run the invocation ends there with an IoError, with
\* no snapshot used and no further command issued.
C8_StatusFailure ==
    \A i \in Clis :
        LET ps == Select(calls[i], {"powershell"})
            rq == Select(calls[i], {"reg query"})
        IN /\ Len(ps) <= 1 /\ Len(rq) <= 1
           /\ \A k \in 1..Len(calls[i]) :
                 calls[i][k].cmd \in {"powershell", "reg query"}
                     /\ calls[i][k].out = "spawn_fail" =>
                         /\ k = Len(calls[i])
                         /\ pc[i] = "exited"
                         /\ result[i] = Err("IoError")
                         /\ exit_code[i] = Some(1)
                         /\ is_start_up[i] = FALSE
                         /\ todo[i] = <<>>

\* C8 witness: an invocation ended by a registry query that could not be run
C8_Witness ==
    \E i \in Clis :
        /\ Len(calls[i]) = 2 /\ calls[i][2].cmd = "reg query"
        /\ calls[i][2].out = "spawn_fail" /\ result[i] = Err("IoError")

\* C9 (as claimed): is_start_up is true exactly for exit code 0, and a
\* registry query that could not be run gives is_start_up false, not an error.
C9_NeverPropagates ==
    \A i \in Clis :
        Len(calls[i]) >= 2 /\ calls[i][2].cmd = "reg query" =>
            /\ is_start_up[i] = (calls[i][2].out = "exit0")
            /\ result[i] # Err("IoError")

\* C9 (amended): is_start_up is true exactly if the registry query ended
\* with code 0; a non-zero code or no code gives false; a query that could
\* not be run gives no snapshot: the invocation ends with an IoError.
C9_StartUpFlag ==
    \A i \in Clis :
        Len(calls[i]) >= 2 /\ calls[i][2].cmd = "reg query" =>
            IF calls[i][2].out = "spawn_fail"
            THEN pc[i] = "exited" /\ result[i] = Err("IoError") /\ Len(calls[i]) = 2
            ELSE is_start_up[i] = (calls[i][2].out = "exit0")

\* C9 witness: a status whose registry query ended without an exit code
\* and whose snapshot says disabled
C9_Witness ==
    \E i \in Clis :
        /\ cmd[i] = "status" /\ result[i] = Ok
        /\ calls[i][2].out = "abnormal" /\ is_start_up[i] = FALSE

\* ---------------------------------------------------------------- C11

\* d is the parent directory of p: p is d, a separator and a last component
\* (the root is its own separator)
IsParentDir(d, p) ==
    \E k \in 1..(Len(p) - 1) :
        /\ p[k] = "/"
        /\ \A j \in (k + 1)..Len(p) : p[j] # "/"
        /\ d = IF k = 1 THEN <<"/">> ELSE SubSeq(p, 1, k - 1)

Prefixes(p) == {SubSeq(p, 1, k) : k \in 0..Len(p)}

HasParentDir(p) == \E d \in Prefixes(p) : IsParentDir(d, p)

ExpectedDir(service) ==
    IF service.work_at # <<>> THEN service.work_at
    ELSE IF HasParentDir(service.path)
         THEN CHOOSE d \in Prefixes(service.path) : IsParentDir(d, service.path)
    ELSE CurDir

\* C11: a launch by run uses work_at when it is non-empty, whatever the
\* path; otherwise the parent directory of the path; and the current
\* directory when the path has no parent directory
C11_WorkingDirectory == resolved.done => resolved.dir = ExpectedDir(probe)

\* /a/b/a with no work_at was launched in /a/b
C11_Witness ==
    /\ resolved.done
    /\ probe.work_at = <<>>
    /\ probe.path = <<"/", "a", "/", "b", "/", "a">>
    /\ resolved.dir = <<"/", "a", "/", "b">>

\* ---------------------------------------------------------------- C12

Queries(i) == Select(calls[i], {"powershell", "reg query"})

\* The processes whose executable path contains the path of service n
LiveSet(n) == {p \in Pids : procs[p] # NoProc /\ Contains(procs[p], service_map(n).path)}

\* C12: `run <service> at <dir>` takes no status snapshot and never ends
\* with ServiceIsRunning; its one external command is the launch, issued
\* from any process table, with <dir> as working directory whatever the
\* stored work_at is.
C12_OverrideLaunch ==
    [][\A i \in Clis :
          /\ cmd'[i] = "run_at" =>
                /\ Queries(i)' = <<>>
                /\ result'[i] # Err("ServiceIsRunning")
                /\ \A k \in 1..Len(calls'[i]) :
                      calls'[i][k].cmd \in {"spawn", "interpreter"} =>
                          k = 1 /\ calls'[i][k].cwd = OverrideDir
          /\ cmd[i] = "run_at" /\ pc[i] = "launch" /\ calls'[i] # calls[i] =>
                /\ Len(calls'[i]) = 1
                /\ calls'[i][1].cmd \in {"spawn", "interpreter"}
                /\ calls'[i][1].target = Service(i).path]_vars

\* C12 witness: the override form launched the service that stores a work_at
\* into the override directory next to a live process of that service
C12_Witness ==
    \E i \in Clis :
        /\ cmd[i] = "run_at" /\ pc[i] = "util_wait"
        /\ Service(i).work_at # <<>> /\ Service(i).work_at # OverrideDir
        /\ calls[i][1].out = "spawned" /\ calls[i][1].cwd = OverrideDir
        /\ LiveSet(svc[i]) # {}

\* ---------------------------------------------------------------- C13

\* An external command of the invocation could not be started
StartFailure(i) == \E k \in 1..Len(calls[i]) : calls[i][k].out = "spawn_fail"

\* A command that changes something, or the awaited interpreter, ran and
\* returned a non-success status
StatusFailure(i) ==
    \E k \in 1..Len(calls[i]) :
        /\ calls[i][k].cmd \in {"reg add", "reg delete", "wait"}
        /\ calls[i][k].out # "exit0"

Refusals ==
    {Err("ServiceIsRunning"), Err("ServiceIsNotRunning"), Err("ServiceIsEnabled"),
     Err("ServiceIsDisabled")}

UsageErrors == {Err("exit:usage"), Err("exit:invalid command")}

\* C13 (as claimed): an invocation exits with code 0 exactly when its
\* command succeeded, and with a non-zero code on a usage error, on an
\* unknown service name (no external command made), on a command execution
\* failure and on every precondition violation.
C13_ExitCodes ==
    \A i \in Clis :
        pc[i] = "exited" =>
            /\ exit_code[i] = Some(0) <=> result[i] = Ok
            /\ result[i] \in UsageErrors \cup Refusals => exit_code[i] = Some(1)
            /\ result[i] = Err("exit:not found") =>
                   exit_code[i] = Some(1) /\ calls[i] = <<>>
            /\ StartFailure(i) \/ StatusFailure(i) => exit_code[i] = Some(1)

\* ---------------------------------------------------------------- C14

\* Invocation i issues an external command in this step
Issues(i) == Len(calls'[i]) = Len(calls[i]) + 1

\* C14: the status check and the action are separate steps. The step that
\* completes the check changes neither the process table nor the store;
\* the action comes in a later step and goes by the snapshot alone: a run
\* launches on an empty snapshot, an enable writes on a snapshot without
\* the entry, and the k-th termination of a kill targets the k-th
\* identifier of the snapshot, whatever the process table and the store
\* have become in between.
C14_CheckThenAct ==
    [][\A i \in Clis :
          /\ pc[i] = "reg_query" /\ pc'[i] # pc[i] => procs' = procs /\ reg' = reg
          /\ pc[i] \in {"launch", "reg_add", "taskkill"} /\ Issues(i) =>
                /\ SnapshotTaken(i)
                /\ pids'[i] = pids[i] /\ is_start_up'[i] = is_start_up[i]
                /\ Queries(i)' = Queries(i)
                /\ pc[i] = "launch" => pids[i] = <<>>
                /\ pc[i] = "reg_add" => ~is_start_up[i]
                /\ pc[i] = "taskkill" =>
                      calls'[i][Len(calls'[i])].pid = pids[i][Len(Kills(i)) + 1]]_vars

\* C14 witness: two concurrent runs of the same service, both with an empty
\* snapshot, both launched: two processes of the service are alive
C14_Witness ==
    \E i, j \in Clis :
        /\ i # j /\ svc[i] = svc[j]
        /\ cmd[i] = "run" /\ cmd[j] = "run"
        /\ SnapshotTaken(i) /\ SnapshotTaken(j)
        /\ pids[i] = <<>> /\ pids[j] = <<>>
        /\ result[i] = Ok /\ result[j] = Ok
        /\ Launches(i)[1].pid # Launches(j)[1].pid
        /\ LiveSet(svc[i]) = {Launches(i)[1].pid, Launches(j)[1].pid}

\* ---------------------------------------------------------------- C15

\* A step of invocation i
StepOf(i) == pc'[i] # pc[i] \/ calls'[i] # calls[i]

RegWrites(i) == Select(calls[i], {"reg add", "reg delete"})

\* C15: no step of a run or a kill changes the auto-start store and neither
\* issues a registry write; no step of an enable or a disable changes the
\* process table and neither issues a launch or a termination.
C15_Orthogonal ==
    [][\A i \in Clis :
          StepOf(i) =>
              /\ cmd[i] \in {"run", "run_at", "kill"} =>
                    reg' = reg /\ (cmd'[i] = cmd[i] => RegWrites(i)' = <<>>)
              /\ cmd[i] \in {"enable", "disable"} =>
                    /\ procs' = procs
                    /\ cmd'[i] = cmd[i] => Launches(i)' = <<>> /\ Kills(i)' = <<>>]_vars

\* C15 witness: a service enabled by the tool and then launched by it,
\* running with its entry still in the store
C15_Witness ==
    \E i \in Clis :
        /\ cmd[i] = "run" /\ result[i] = Ok /\ Len(Launches(i)) = 1
        /\ Launches(i)[1].pid \in LiveSet(svc[i])
        /\ lastReg[svc[i]] = "enable" /\ svc[i] \in reg

\* ---------------------------------------------------------------- C16

\* C16: a step of get_status, in any command and whether the query it
\* issues runs or not, leaves the process table and the auto-start store as
\* they are; so does every step of a status command, which issues nothing
\* but the two queries, once each.
C16_StatusReadOnly ==
    [][\A i \in Clis :
          /\ pc[i] \in {"ps_query", "reg_query"} /\ StepOf(i) =>
                procs' = procs /\ reg' = reg
          /\ cmd[i] = "status" /\ StepOf(i) => procs' = procs /\ reg' = reg
          /\ cmd'[i] = "status" =>
                /\ Len(calls'[i]) <= 2
                /\ Queries(i)' = calls'[i]
                /\ pc'[i] \in {"ps_query", "reg_query", "exited"}]_vars

\* C16 witness: a status that printed a running, enabled service, both
\* still there
C16_Witness ==
    \E i \in Clis :
        /\ cmd[i] = "status" /\ result[i] = Ok /\ Len(calls[i]) = 2
        /\ pids[i] # <<>> /\ is_start_up[i]
        /\ \A k \in 1..Len(pids[i]) : pids[i][k] \in LiveSet(svc[i])
        /\ svc[i] \in reg

\* ---------------------------------------------------------------- C17

\* C17: an invocation whose configuration cannot be read or decoded ends
\* in main's first step with that error and exit code 1, whatever its
\* arguments are: no usage or not-found outcome, no command or service
\* taken from the arguments, no external command made.
C17_ConfigFirst ==
    \A i \in Clis :
        config[i] \in {"unreadable", "undecodable"} =>
            /\ pc[i] = "exited"
            /\ result[i] = Err(IF config[i] = "unreadable" THEN "IoError" ELSE "YamlError")
            /\ exit_code[i] = Some(1)
            /\ cmd[i] = "none" /\ svc[i] = "none"
            /\ calls[i] = <<>>

\* C17 witness: `run app` with a configuration that does not decode ended
\* with the decode error and no call
C17_Witness ==
    \E i \in Clis :
        /\ config[i] = "undecodable" /\ argv[i] = <<"svc", "run", "app">>
        /\ pc[i] = "exited" /\ result[i] = Err("YamlError") /\ calls[i] = <<>>

\* ---------------------------------------------------------------- C18

\* C18: an enable whose snapshot lacks the entry, and a disable whose
\* snapshot has it, issue their one registry write; once the write is
\* issued the invocation has ended, with Ok and exit code 0 if the command
\* ran, whatever it exited with, and with an IoError only if it could not
\* be started.
C18_RegistryStatusIgnored ==
    \A i \in Clis :
        cmd[i] \in {"enable", "disable"} /\ SnapshotTaken(i) =>
            /\ is_start_up[i] = (cmd[i] = "disable") =>
                   \/ pc[i] \in {"reg_add", "reg_delete"} /\ RegWrites(i) = <<>>
                   \/ pc[i] = "exited" /\ Len(RegWrites(i)) = 1
            /\ RegWrites(i) # <<>> =>
                   /\ is_start_up[i] = (cmd[i] = "disable")
                   /\ RegWrites(i)[1].cmd = (IF cmd[i] = "enable" THEN "reg add" ELSE "reg delete")
                   /\ IF RegWrites(i)[1].out = "spawn_fail"
                      THEN result[i] = Err("IoError") /\ exit_code[i] = Some(1)
                      ELSE result[i] = Ok /\ exit_code[i] = Some(0)

\* C18 witness: an enable that returned Ok although reg add exited non-zero
\* and the entry is not in the store
C18_Witness ==
    \E i \in Clis :
        /\ cmd[i] = "enable" /\ pc[i] = "exited" /\ result[i] = Ok
        /\ RegWrites(i)[1].out = "exit1"
        /\ svc[i] \notin reg

\* ---------------------------------------------------------------- C19

\* println!("Service {} with PID {} killed."): the identifiers reported as
\* killed, one for every termination command that returned
killed_reports(i) ==
    LET ran == SelectSeq(Kills(i), LAMBDA c : c.out # "spawn_fail")
    IN [k \in 1..Len(ran) |-> ran[k].pid]

\* C19: the k-th termination command of a kill is for the k-th identifier
\* of its snapshot; every command that ran, whatever its exit code, has its
\* identifier reported as killed; a kill that has ended returned Ok exactly
\* if all its commands could be started, with every identifier reported,
\* and else an IoError from the command that could not be started, with
\* the identifiers before it reported and those after it never tried.
C19_KillIgnoresStatus ==
    \A i \in Clis :
        cmd[i] = "kill" /\ Kills(i) # <<>> =>
            LET n == Len(Kills(i))
                failed == {k \in 1..n : Kills(i)[k].out = "spawn_fail"}
            IN /\ n <= Len(pids[i])
               /\ \A k \in 1..n : Kills(i)[k].pid = pids[i][k]
               /\ pc[i] = "exited" =>
                     IF failed = {}
                     THEN /\ result[i] = Ok /\ exit_code[i] = Some(0)
                          /\ killed_reports(i) = pids[i]
                     ELSE /\ result[i] = Err("IoError") /\ exit_code[i] = Some(1)
                          /\ failed = {n}
                          /\ killed_reports(i) = SubSeq(pids[i], 1, n - 1)

\* C19 witness: a kill that returned Ok and reported its identifier as
\* killed while the termination had failed and the process is still alive
C19_Witness ==
    \E i \in Clis :
        /\ cmd[i] = "kill" /\ pc[i] = "exited" /\ result[i] = Ok
        /\ \E k \in 1..Len(Kills(i)) :
              /\ Kills(i)[k].out = "exit1"
              /\ Kills(i)[k].pid \in LiveSet(svc[i])
              /\ \E j \in 1..Len(killed_reports(i)) : killed_reports(i)[j] = Kills(i)[k].pid

\* ---------------------------------------------------------------- C20

Running(i) == pc[i] \notin {"idle", "exited"}

\* C20: from main's dispatch to its exit an invocation keeps its one
\* command and service; it moves on only when the external command it is at
\* returns, and issues each command once: one enumeration, one registry
\* query, at most one launch, wait and registry write, at most one
\* termination per identifier of the snapshot; and if its external commands
\* return, it exits.
C20_OneCommandThenExit ==
    /\ [][\A i \in Clis :
             /\ Running(i) => cmd'[i] = cmd[i] /\ svc'[i] = svc[i]
             /\ Running(i) /\ pc'[i] # pc[i] => Issues(i)
             /\ LET count(C) == Len(Select(calls'[i], C))
                IN /\ count({"powershell"}) <= 1 /\ count({"reg query"}) <= 1
                   /\ count({"spawn", "interpreter"}) <= 1 /\ count({"wait"}) <= 1
                   /\ count({"reg add", "reg delete"}) <= 1
                   /\ count({"taskkill"}) <= Len(pids'[i])
                   /\ count({"spawn", "interpreter", "wait"}) > 0 =>
                          count({"reg add", "reg delete", "taskkill"}) = 0
                   /\ count({"reg add", "reg delete"}) > 0 => count({"taskkill"}) = 0]_vars
    /\ \A i \in Clis : Running(i) ~> pc[i] = "exited"

\* C20 witness: a run of the Util service that went through its four
\* external commands, the wait for the interpreter last, and exited
C20_Witness ==
    \E i \in Clis :
        /\ cmd[i] = "run" /\ pc[i] = "exited" /\ Len(calls[i]) = 4
        /\ calls[i][3].cmd = "interpreter" /\ calls[i][4].cmd = "wait"
        /\ exit_code[i] # None

====
